---- MODULE Spec2Model ----
(***************************************************************************)
(* A model of the text-renderer font pipeline: the FontReader byte cursor, *)
(* FontTableParser (get_lookup_table, get_glyph_location, get_glyphs,      *)
(* get_coordinates, map_glyph_to_unicode) and the outline reconstruction   *)
(* of render_text.  The parser runs over a byte buffer; every value it     *)
(* produces is computed from the bytes the way the Rust code computes it.  *)
(*                                                                         *)
(* Numbers.  u16/i16/u8 are integers in their ranges.  A u32 read is kept  *)
(* as its two big-endian 16-bit halves <<hi, lo>> (U32), because the model *)
(* integers of TLC     are 32-bit signed; ToNat converts a U32 below 2^31.  *)
(* f32 coordinates are exact rationals counted in 1/Units.                 *)
(***************************************************************************)
EXTENDS Integers, Sequences, FiniteSets, TLC

VARIABLES
    input,                  \* the font description the buffer was built from
    buf,                    \* FontReader.cursor: the bytes of the file
    pos,                    \* FontReader.cursor: the read position
    window_size,            \* the window size spawn passes to get_glyphs
    font_table,             \* FontTableParser.font_table
    glyph_locations,        \* FontTableParser.glyph_locations
    glyphs,                 \* FontTableParser.glyphs
    unicodes_to_index,      \* FontTableParser.unicodes_to_index
    unicode_to_index_map,   \* the local map of map_glyph_to_unicode
    cmap_state,             \* the other locals of map_glyph_to_unicode
    pc,                     \* the call of spawn (or the system) that runs next
    outcome,                \* how the last call ended: ok, an Err, or a panic
    glyph_data,             \* resource GlyphData
    glyph_unicodes,         \* resource GlyphUnicode
    char_index,             \* render_text: characters of the text already drawn
    padding,                \* render_text: padding
    row_counter,            \* render_text: the outer counter i
    implied_contours,       \* render_text: contour_with_implied_points, per contour
    drawn                   \* render_text: the draw_bezier calls of the last glyph

vars == <<input, buf, pos, window_size, font_table, glyph_locations, glyphs,
          unicodes_to_index, unicode_to_index_map, cmap_state, pc, outcome,
          glyph_data, glyph_unicodes, char_index, padding, row_counter,
          implied_contours, drawn>>

parser_vars == <<buf, pos, window_size, font_table, glyph_locations, glyphs,
                 unicodes_to_index, unicode_to_index_map, cmap_state>>

render_vars == <<glyph_data, glyph_unicodes, char_index, padding, row_counter,
                 implied_contours, drawn>>

(***************************************************************************)
(* Bounds of the model.                                                    *)
(***************************************************************************)
MaxPoints == 3      \* points of a generated simple glyph
MaxGlyphs == 2      \* glyphs of a generated multi-glyph font
MaxSegs == 2        \* segments of a generated format 4 subtable
MaxGroups == 2      \* groups of a generated format 12 subtable

(***************************************************************************)
(* Sequences and byte encodings (big-endian, as the file stores them).     *)
(***************************************************************************)
Zeros(n) == [i \in 1..n |-> 0]

RECURSIVE Concat(_)
Concat(ss) == IF ss = <<>> THEN <<>> ELSE Head(ss) \o Concat(Tail(ss))

RECURSIVE SumSeq(_)
SumSeq(s) == IF s = <<>> THEN 0 ELSE Head(s) + SumSeq(Tail(s))

SeqsUpTo(S, n) == UNION {[1..k -> S] : k \in 0..n}

U16Bytes(n) == <<n \div 256, n % 256>>
I16Bytes(v) == U16Bytes(IF v < 0 THEN v + 65536 ELSE v)
U16SeqBytes(vals) ==
    [k \in 1..(2 * Len(vals)) |->
        IF k % 2 = 1 THEN vals[(k + 1) \div 2] \div 256 ELSE vals[k \div 2] % 256]
U32Bytes(u) == U16Bytes(u[1]) \o U16Bytes(u[2])
NatBytes32(n) == U32Bytes(<<n \div 65536, n % 65536>>)

\* The four-character tags, as the bytes read_tag turns into a String.
TagHead == <<104, 101, 97, 100>>
TagMaxp == <<109, 97, 120, 112>>
TagLoca == <<108, 111, 99, 97>>
TagGlyf == <<103, 108, 121, 102>>
TagCmap == <<99, 109, 97, 112>>

(***************************************************************************)
(* FontReader.  A read returns [ok, val, pos]; ok = FALSE is the           *)
(* UnexpectedEof error of read_exact.                                      *)
(***************************************************************************)
Eof == [ok |-> FALSE, val |-> 0, pos |-> 0]
Got(v, p) == [ok |-> TRUE, val |-> v, pos |-> p]

read_byte(p) ==
    IF p + 1 <= Len(buf) THEN Got(buf[p + 1], p + 1) ELSE Eof

read_u16(p) ==
    IF p + 2 <= Len(buf) THEN Got(buf[p + 1] * 256 + buf[p + 2], p + 2) ELSE Eof

read_i16(p) ==
    IF p + 2 <= Len(buf)
    THEN LET u == buf[p + 1] * 256 + buf[p + 2]
         IN  Got(IF u >= 32768 THEN u - 65536 ELSE u, p + 2)
    ELSE Eof

read_u32(p) ==
    IF p + 4 <= Len(buf)
    THEN Got(<<buf[p + 1] * 256 + buf[p + 2], buf[p + 3] * 256 + buf[p + 4]>>, p + 4)
    ELSE Eof

read_tag(p) ==
    IF p + 4 <= Len(buf) THEN Got(SubSeq(buf, p + 1, p + 4), p + 4) ELSE Eof

skip_bytes(p, n) == p + n

\* `x as u64` of a u32 below 2^31 (every offset of the generated fonts is).
ToNat(u) == u[1] * 65536 + u[2]

\* HashMap::insert: the new value replaces an old one.
Insert(m, k, v) == (k :> v) @@ m
EmptyMap == [x \in {} |-> 0]

(***************************************************************************)
(* FontTableParser.get_lookup_table                                        *)
(***************************************************************************)
RECURSIVE ReadTableRecords(_, _, _)
ReadTableRecords(p, n, table) ==
    IF n = 0 THEN [ok |-> TRUE, pos |-> p, table |-> table]
    ELSE LET tag == read_tag(p)
             offset == read_u32(p + 8)
         IN  IF ~tag.ok \/ p + 16 > Len(buf)
             THEN [ok |-> FALSE, pos |-> p, table |-> table]
             ELSE ReadTableRecords(p + 16, n - 1,
                                   Insert(table, tag.val, ToNat(offset.val)))

get_lookup_table(p) ==
    LET n_tables == read_u16(skip_bytes(p, 4))
    IN  IF ~n_tables.ok THEN [ok |-> FALSE, pos |-> p, table |-> EmptyMap]
        ELSE ReadTableRecords(skip_bytes(n_tables.pos, 6), n_tables.val, EmptyMap)

(***************************************************************************)
(* FontTableParser.get_glyph_location                                      *)
(***************************************************************************)
\* One loca entry as a byte offset into glyf.
LocaEntryBroken(p, is_two_byte_entry) ==
    IF is_two_byte_entry
    THEN LET r == read_u16(p) IN IF r.ok THEN Got(r.val, r.pos) ELSE Eof
    ELSE LET r == read_u32(p) IN IF r.ok THEN Got(ToNat(r.val), r.pos) ELSE Eof

LocaEntry(p, is_two_byte_entry) ==
    IF is_two_byte_entry
    THEN LET r == read_u16(p) IN IF r.ok THEN Got(r.val * 2, r.pos) ELSE Eof
    ELSE LET r == read_u32(p) IN IF r.ok THEN Got(ToNat(r.val), r.pos) ELSE Eof

RECURSIVE ReadLoca(_, _, _, _, _)
ReadLoca(p, n, is_two_byte_entry, glyf_table_loc, locs) ==
    IF n = 0 THEN [ok |-> TRUE, pos |-> p, locs |-> locs]
    ELSE LET e == LocaEntry(p, is_two_byte_entry)
         IN  IF ~e.ok THEN [ok |-> FALSE, pos |-> p, locs |-> locs]
             ELSE ReadLoca(e.pos, n - 1, is_two_byte_entry, glyf_table_loc,
                           Append(locs, glyf_table_loc + e.val))

\* The result of the call: a panic of a HashMap index, an Err, or Ok.
get_glyph_location(table, locs) ==
    IF \E t \in {TagLoca, TagGlyf, TagMaxp, TagHead} : t \notin DOMAIN table
    THEN [end |-> "panic", pos |-> pos, locs |-> locs]
    ELSE LET num_glyphs == read_u16(table[TagMaxp] + 4)
             format == read_i16(table[TagHead] + 50)
         IN  IF ~num_glyphs.ok \/ ~format.ok
             THEN [end |-> "err", pos |-> pos, locs |-> locs]
             ELSE LET r == ReadLoca(table[TagLoca], num_glyphs.val,
                                    format.val = 0, table[TagGlyf], locs)
                  IN  [end |-> IF r.ok THEN "ok" ELSE "err",
                       pos |-> r.pos, locs |-> r.locs]

(***************************************************************************)
(* get_coordinates.  A coordinate is an exact rational counted in 1/Units  *)
(* (the code computes in f32): delta / FONT_SIZE_FACTOR, window_size.x /   *)
(* 2.25 and window_size.y / 4.0 are all whole numbers of units.            *)
(***************************************************************************)
FONT_SIZE_FACTOR == 10
Units == 36 * FONT_SIZE_FACTOR

bit_is_set(flag, bit) == (flag \div (2 ^ bit)) % 2 = 1

\* `i as i16`, and the index i16::max(0, (i as i16) - 1) as usize.
ToI16(i) == LET m == i % 65536 IN IF m >= 32768 THEN m - 65536 ELSE m

PrevIndexNone(i) == 0

PrevIndex(i) == LET s == ToI16(i) - 1 IN IF s > 0 THEN s ELSE 0

\* What one point adds on one axis, in units.
AxisDelta(p, flag, short_vector_bit, sign_or_skip_bit) ==
    IF bit_is_set(flag, short_vector_bit)
    THEN LET coordinate == read_byte(p)
             sign == IF bit_is_set(flag, sign_or_skip_bit) THEN 1 ELSE -1
         IN  IF ~coordinate.ok THEN Eof
             ELSE Got((coordinate.val * sign * Units) \div FONT_SIZE_FACTOR,
                      coordinate.pos)
    ELSE IF ~bit_is_set(flag, sign_or_skip_bit)
         THEN LET d == read_i16(p)
              IN  IF ~d.ok THEN Eof
                  ELSE Got((d.val * Units) \div FONT_SIZE_FACTOR, d.pos)
         ELSE Got(0, p)

\* One of the two loops of get_coordinates: vals is the axis of `coordinates`.
RECURSIVE AxisPass(_, _, _, _, _, _)
AxisPass(p, flags, i, vals, short_vector_bit, sign_or_skip_bit) ==
    IF i = Len(flags) THEN [ok |-> TRUE, pos |-> p, vals |-> vals]
    ELSE LET d == AxisDelta(p, flags[i + 1], short_vector_bit, sign_or_skip_bit)
         IN  IF ~d.ok THEN [ok |-> FALSE, pos |-> p, vals |-> vals]
             ELSE AxisPass(d.pos, flags, i + 1,
                           [vals EXCEPT ![i + 1] = vals[PrevIndex(i) + 1] + d.val],
                           short_vector_bit, sign_or_skip_bit)

\* The shift of the last loop: the first point and the window size.
OriginX(first_x, window) == first_x + (window[1] * Units * 4) \div 9
OriginY(first_y, window) == first_y - (window[2] * Units) \div 4

get_coordinates(p, flags, window) ==
    LET n == Len(flags)
        xs == AxisPass(p, flags, 0, Zeros(n), 1, 4)
        ys == AxisPass(xs.pos, flags, 0, Zeros(n), 2, 5)
    IN  IF ~xs.ok \/ ~ys.ok THEN [end |-> "err", pos |-> p, coordinates |-> <<>>]
        ELSE IF n = 0 THEN [end |-> "panic", pos |-> ys.pos, coordinates |-> <<>>]
        ELSE [end |-> "ok", pos |-> ys.pos,
              coordinates |->
                [i \in 1..n |->
                    [x |-> xs.vals[i] - OriginX(xs.vals[1], window),
                     y |-> ys.vals[i] - OriginY(ys.vals[1], window),
                     on_curve |-> bit_is_set(flags[i], 0)]]]

(***************************************************************************)
(* FontTableParser.get_glyphs: one iteration of its loop.                  *)
(***************************************************************************)
RECURSIVE ReadU16s(_, _, _)
ReadU16s(p, n, acc) ==
    IF n = 0 THEN [ok |-> TRUE, pos |-> p, vals |-> acc]
    ELSE LET r == read_u16(p)
         IN  IF ~r.ok THEN [ok |-> FALSE, pos |-> p, vals |-> acc]
             ELSE ReadU16s(r.pos, n - 1, Append(acc, r.val))

\* The while loop that fills `flags`.
RECURSIVE FlagLoop(_, _, _, _)
FlagLoop(p, i, flags, flag_capacity) ==
    IF i >= flag_capacity THEN [ok |-> TRUE, pos |-> p, flags |-> flags]
    ELSE LET flag == read_byte(p)
             repeat == read_byte(flag.pos)
         IN  IF ~flag.ok THEN [ok |-> FALSE, pos |-> p, flags |-> flags]
             ELSE IF bit_is_set(flag.val, 3)
                  THEN IF ~repeat.ok THEN [ok |-> FALSE, pos |-> p, flags |-> flags]
                       ELSE FlagLoop(repeat.pos, i + 1 + repeat.val,
                                     Append(flags, flag.val)
                                        \o [k \in 1..repeat.val |-> flag.val],
                                     flag_capacity)
                  ELSE FlagLoop(flag.pos, i + 1, Append(flags, flag.val),
                                flag_capacity)

FlagCapacity(contour_end_pts) ==
    (IF contour_end_pts = <<>> THEN 0
     ELSE contour_end_pts[Len(contour_end_pts)]) + 1

\* A simple glyph, from the position after its contour count.
SimpleGlyph(p, n_contours, window) ==
    LET ends == ReadU16s(skip_bytes(p, 8), n_contours, <<>>)
        instructions_length == read_u16(ends.pos)
        fl == FlagLoop(skip_bytes(instructions_length.pos, instructions_length.val),
                       0, <<>>, FlagCapacity(ends.vals))
        co == get_coordinates(fl.pos, fl.flags, window)
        none == [coordinates |-> <<>>, contour_end_pts |-> <<>>]
    IN  IF ~ends.ok \/ ~instructions_length.ok \/ ~fl.ok
        THEN [end |-> "err", pos |-> p, push |-> FALSE, glyph |-> none]
        ELSE IF co.end # "ok"
        THEN [end |-> co.end, pos |-> co.pos, push |-> FALSE, glyph |-> none]
        ELSE [end |-> "ok", pos |-> co.pos, push |-> TRUE,
              glyph |-> [coordinates |-> co.coordinates,
                         contour_end_pts |-> ends.vals]]

\* The body of the loop for the glyph at glyf_location, with the glyphs pushed
\* so far.  n_contours is the i16 read; `as usize` makes -1 usize::MAX and any
\* other negative count a capacity Vec::with_capacity panics on.
DecodeGlyph(glyf_location, pushed, window) ==
    LET n_contours == read_i16(glyf_location)
        none == [coordinates |-> <<>>, contour_end_pts |-> <<>>]
    IN  IF ~n_contours.ok
        THEN [end |-> "err", pos |-> glyf_location, push |-> FALSE, glyph |-> none]
        ELSE IF n_contours.val = -1
        THEN IF pushed = <<>>
             THEN [end |-> "panic", pos |-> n_contours.pos, push |-> FALSE,
                   glyph |-> none]
             ELSE [end |-> "ok", pos |-> n_contours.pos, push |-> TRUE,
                   glyph |-> pushed[1]]
        ELSE IF n_contours.val < -1
        THEN [end |-> "panic", pos |-> n_contours.pos, push |-> FALSE, glyph |-> none]
        ELSE SimpleGlyph(n_contours.pos, n_contours.val, window)

(***************************************************************************)
(* u32 arithmetic on <<hi, lo>>: the wrapped result and whether the exact  *)
(* result left the u32 range (a panic where overflow checks are compiled   *)
(* in, the wrapped value where they are not).                              *)
(***************************************************************************)
U32Max == <<65535, 65535>>

U32Sub(a, b) ==
    LET lo == a[2] - b[2]
        hi == a[1] - b[1] - (IF lo < 0 THEN 1 ELSE 0)
    IN  [val |-> <<hi % 65536, lo % 65536>>, overflow |-> hi < 0]

U32Add(a, b) ==
    LET lo == a[2] + b[2]
        hi == a[1] + b[1] + (IF lo >= 65536 THEN 1 ELSE 0)
    IN  [val |-> <<hi % 65536, lo % 65536>>, overflow |-> hi >= 65536]

(***************************************************************************)
(* FontTableParser.map_glyph_to_unicode: the choice of the subtable and    *)
(* the reads before the loops.                                             *)
(***************************************************************************)
RECURSIVE ScanSubtables(_, _, _)
ScanSubtables(p, n, cmap_subtable_offset) ==
    IF n = 0 THEN [ok |-> TRUE, pos |-> p, val |-> cmap_subtable_offset]
    ELSE LET platform_id == read_u16(p)
             platform_specific_id == read_u16(p + 2)
             offset == read_u32(p + 4)
         IN  IF ~offset.ok THEN [ok |-> FALSE, pos |-> p, val |-> cmap_subtable_offset]
             ELSE ScanSubtables(offset.pos, n - 1,
                    IF platform_id.val = 0 /\ platform_specific_id.val = 4
                    THEN offset.val
                    ELSE IF platform_id.val = 0 /\ platform_specific_id.val = 3
                            /\ cmap_subtable_offset = U32Max
                    THEN offset.val
                    ELSE cmap_subtable_offset)

\* The (current_location, offset) pairs of id_range_offsets.
RECURSIVE ReadRangeOffsets(_, _, _)
ReadRangeOffsets(p, n, acc) ==
    IF n = 0 THEN [ok |-> TRUE, pos |-> p, vals |-> acc]
    ELSE LET r == read_u16(p)
         IN  IF ~r.ok THEN [ok |-> FALSE, pos |-> p, vals |-> acc]
             ELSE ReadRangeOffsets(r.pos, n - 1, Append(acc, <<p, r.val>>))

NoCmapState ==
    [format |-> 0, n |-> 0, done |-> 0, end_codes |-> <<>>, start_codes |-> <<>>,
     id_deltas |-> <<>>, id_range_offsets |-> <<>>]

\* Format 4, from the position after the format: the four arrays.
Format4Arrays(p) ==
    LET seg_count_x2 == read_u16(skip_bytes(p, 4))
        seg_count == seg_count_x2.val \div 2
        end_codes == ReadU16s(skip_bytes(seg_count_x2.pos, 6), seg_count, <<>>)
        start_codes == ReadU16s(skip_bytes(end_codes.pos, 2), seg_count, <<>>)
        id_deltas == ReadU16s(start_codes.pos, seg_count, <<>>)
        id_range_offsets == ReadRangeOffsets(id_deltas.pos, seg_count, <<>>)
    IN  IF ~seg_count_x2.ok \/ ~end_codes.ok \/ ~start_codes.ok \/ ~id_deltas.ok
           \/ ~id_range_offsets.ok
        THEN [end |-> "err", pos |-> p, state |-> NoCmapState]
        ELSE [end |-> "ok", pos |-> id_range_offsets.pos,
              state |-> [format |-> 4, n |-> seg_count, done |-> 0,
                         end_codes |-> end_codes.vals,
                         start_codes |-> start_codes.vals,
                         id_deltas |-> id_deltas.vals,
                         id_range_offsets |-> id_range_offsets.vals]]

\* Format 12, from the position after the format: the group count.
Format12Count(p) ==
    LET n_groups == read_u32(skip_bytes(p, 10))
    IN  IF ~n_groups.ok THEN [end |-> "err", pos |-> p, state |-> NoCmapState]
        ELSE [end |-> "ok", pos |-> n_groups.pos,
              state |-> [NoCmapState EXCEPT !.format = 12,
                                            !.n = ToNat(n_groups.val)]]

CmapHeader(table) ==
    IF TagCmap \notin DOMAIN table
    THEN [end |-> "panic", pos |-> pos, state |-> NoCmapState]
    ELSE LET n_subtables == read_u16(skip_bytes(table[TagCmap], 2))
             chosen == ScanSubtables(n_subtables.pos, n_subtables.val, U32Max)
             format == read_u16(table[TagCmap] + ToNat(chosen.val))
         IN  IF ~n_subtables.ok \/ ~chosen.ok
             THEN [end |-> "err", pos |-> pos, state |-> NoCmapState]
             ELSE IF chosen.val = U32Max
             THEN [end |-> "panic", pos |-> chosen.pos, state |-> NoCmapState]
             ELSE IF ~format.ok
             THEN [end |-> "err", pos |-> pos, state |-> NoCmapState]
             ELSE IF format.val = 12 THEN Format12Count(format.pos)
             ELSE IF format.val = 4 THEN Format4Arrays(format.pos)
             ELSE [end |-> "panic", pos |-> format.pos, state |-> NoCmapState]

(***************************************************************************)
(* Format 12: one group.                                                   *)
(***************************************************************************)
RECURSIVE InsertGroup(_, _, _, _, _)
InsertGroup(map, start_char_code, start_glyph_code, char_code_offset, count) ==
    IF char_code_offset >= count THEN map
    ELSE InsertGroup(Insert(map, start_char_code + char_code_offset,
                            start_glyph_code + char_code_offset),
                     start_char_code, start_glyph_code, char_code_offset + 1, count)

\* end_char_code - start_char_code + 1 in u32.
GroupCount(start_char_code, end_char_code) ==
    LET diff == U32Sub(end_char_code, start_char_code)
        count == U32Add(diff.val, <<0, 1>>)
    IN  [val |-> count.val, overflow |-> diff.overflow \/ count.overflow]

CmapGroup(p, map, overflow_checks) ==
    LET start_char_code == read_u32(p)
        end_char_code == read_u32(p + 4)
        start_glyph_code == read_u32(p + 8)
        count == GroupCount(start_char_code.val, end_char_code.val)
    IN  IF ~start_glyph_code.ok THEN [end |-> "err", pos |-> p, map |-> map]
        ELSE IF count.overflow /\ overflow_checks
        THEN [end |-> "panic", pos |-> start_glyph_code.pos, map |-> map]
        ELSE [end |-> "ok", pos |-> start_glyph_code.pos,
              map |-> InsertGroup(map, ToNat(start_char_code.val),
                                  ToNat(start_glyph_code.val), 0, ToNat(count.val))]

(***************************************************************************)
(* Format 4: one segment.                                                  *)
(***************************************************************************)
\* The address of the indirect read for curr_code.
GlyphIndexAddressNoScale(range_offset, curr_code, start_code) ==
    range_offset[1] + range_offset[2] + (curr_code - start_code)

GlyphIndexAddress(range_offset, curr_code, start_code) ==
    range_offset[1] + range_offset[2] + 2 * (curr_code - start_code)

\* glyph_index for curr_code when the range offset is zero.
DirectGlyphIndexNoWrap(curr_code, id_delta) == curr_code + id_delta

DirectGlyphIndex(curr_code, id_delta) == (curr_code + id_delta) % 65536

\* glyph_index for curr_code, as [ok, val]; ok = FALSE is the Err of the read.
GlyphIndex4(curr_code, start_code, id_delta, range_offset) ==
    IF range_offset[2] = 0
    THEN Got(DirectGlyphIndex(curr_code, id_delta), pos)
    ELSE LET glyph_index_offset ==
                 read_u16(GlyphIndexAddress(range_offset, curr_code, start_code))
         IN  IF ~glyph_index_offset.ok THEN Eof
             ELSE IF glyph_index_offset.val # 0
             THEN Got((glyph_index_offset.val + id_delta) % 65536, pos)
             ELSE Got(0, pos)

\* The while loop over curr_code = start_code..end_code of segment i: every
\* code of the segment is inserted, unless one of the indirect reads fails.
CmapSegment(i, st, map) ==
    LET codes == st.start_codes[i]..st.end_codes[i]
        glyph_index(curr_code) ==
            GlyphIndex4(curr_code, st.start_codes[i], st.id_deltas[i],
                        st.id_range_offsets[i])
    IN  IF \E curr_code \in codes : ~glyph_index(curr_code).ok
        THEN [end |-> "err", map |-> map]
        ELSE [end |-> "ok",
              map |-> [curr_code \in codes |-> glyph_index(curr_code).val] @@ map]

(***************************************************************************)
(* render_text: the outline reconstruction of one glyph.  A point of       *)
(* contour_with_implied_points is kept with the classification the code    *)
(* gives it: an old point keeps its on_curve, an inserted midpoint is the  *)
(* implied point of the other kind.                                        *)
(***************************************************************************)
TEXT ==
    <<65, 66, 67, 68, 69, 70, 71, 72, 73, 74, 75, 76, 77, 78, 79, 80, 81, 82, 83,
      84, 85, 86, 87, 88, 89, 90, 97, 98, 99, 100, 101, 102, 103, 104, 105, 106,
      107, 108, 109, 110, 111, 112, 113, 114, 116, 117, 118, 119, 120, 121, 122,
      49, 50, 51, 52, 53, 54, 55, 56, 57, 33, 64, 35, 36, 37, 94, 42, 40, 41, 91,
      93>>

RECURSIVE FirstOncurveOffset(_, _)
FirstOncurveOffset(old_contour, first_oncurve_offset) ==
    IF first_oncurve_offset < Len(old_contour)
       /\ ~old_contour[first_oncurve_offset + 1].on_curve
    THEN FirstOncurveOffset(old_contour, first_oncurve_offset + 1)
    ELSE first_oncurve_offset

\* The test `a.1 == b.1` that decides whether a midpoint is inserted.
SameKindOnCurveOnly(a, b) == a.on_curve /\ b.on_curve

SameKind(a, b) == a.on_curve = b.on_curve

Midpoint(a, b) ==
    [x |-> (a.x + b.x) \div 2, y |-> (a.y + b.y) \div 2,
     on_curve |-> ~a.on_curve, implied |-> TRUE]

RECURSIVE ImpliedLoop(_, _, _, _)
ImpliedLoop(old_contour, first_oncurve_offset, i, acc) ==
    IF i >= Len(old_contour) THEN acc
    ELSE LET n == Len(old_contour)
             a == old_contour[((i + first_oncurve_offset) % n) + 1]
             b == old_contour[((i + first_oncurve_offset + 1) % n) + 1]
             kept == Append(acc, [x |-> a.x, y |-> a.y, on_curve |-> a.on_curve,
                                  implied |-> FALSE])
         IN  ImpliedLoop(old_contour, first_oncurve_offset, i + 1,
                         IF SameKind(a, b) THEN Append(kept, Midpoint(a, b))
                         ELSE kept)

ContourWithImpliedPoints(old_contour) ==
    ImpliedLoop(old_contour, FirstOncurveOffset(old_contour, 0), 0, <<>>)

\* The (a, b, c) of the draw_bezier calls of one contour.
RECURSIVE DrawLoop(_, _, _, _)
DrawLoop(points, pad, i, acc) ==
    IF i >= Len(points) THEN acc
    ELSE LET n == Len(points)
             P(k) == <<points[(k % n) + 1].x + pad[1] * Units,
                       points[(k % n) + 1].y + pad[2] * Units>>
         IN  DrawLoop(points, pad, i + 2, Append(acc, <<P(i), P(i + 1), P(i + 2)>>))

\* The loop over glyph_contours, from contour k (1-based) on.
RECURSIVE ContourLoop(_, _, _, _, _, _, _)
ContourLoop(glyph_coords, glyph_contours, k, contour_start, pad, contours, calls) ==
    IF k > Len(glyph_contours)
    THEN [end |-> "ok", contours |-> contours, drawn |-> calls]
    ELSE LET contour_end == glyph_contours[k]
         IN  IF contour_start > contour_end + 1 \/ contour_end + 1 > Len(glyph_coords)
             THEN [end |-> "panic", contours |-> contours, drawn |-> calls]
             ELSE LET old_contour ==
                          SubSeq(glyph_coords, contour_start + 1, contour_end + 1)
                      new_contour == ContourWithImpliedPoints(old_contour)
                  IN  ContourLoop(glyph_coords, glyph_contours, k + 1,
                                  contour_end + 1, pad,
                                  Append(contours, new_contour),
                                  calls \o DrawLoop(new_contour, pad, 0, <<>>))

\* The body of the loop over the characters, for one character.
RenderOne(unicode, pad) ==
    IF unicode \notin DOMAIN glyph_unicodes
    THEN [end |-> "panic", contours |-> <<>>, drawn |-> <<>>]
    ELSE IF glyph_unicodes[unicode] >= Len(glyph_data)
    THEN [end |-> "panic", contours |-> <<>>, drawn |-> <<>>]
    ELSE LET glyph == glyph_data[glyph_unicodes[unicode] + 1]
         IN  ContourLoop(glyph.coordinates, glyph.contour_end_pts, 1, 0, pad,
                         <<>>, <<>>)

(***************************************************************************)
(* The font files the parser is run on.  A font is described by its        *)
(* glyphs (points with their deltas and the encoding of each delta), its   *)
(* loca format and its cmap; FontBytes lays the description out as the     *)
(* bytes of a TrueType file.                                               *)
(***************************************************************************)
Abs(v) == IF v < 0 THEN -v ELSE v

\* A point: on_curve, the deltas, and how each delta is stored.
Pt(on, dx, xe, dy, ye) == [on |-> on, dx |-> dx, xe |-> xe, dy |-> dy, ye |-> ye]

PointFlag(pt) ==
    (IF pt.on THEN 1 ELSE 0)
    + (IF pt.xe = "short" THEN 2 ELSE 0)
    + (IF pt.ye = "short" THEN 4 ELSE 0)
    + (IF (pt.xe = "short" /\ pt.dx >= 0) \/ pt.xe = "same" THEN 16 ELSE 0)
    + (IF (pt.ye = "short" /\ pt.dy >= 0) \/ pt.ye = "same" THEN 32 ELSE 0)

DeltaBytes(d, enc) ==
    IF enc = "short" THEN <<Abs(d)>>
    ELSE IF enc = "word" THEN I16Bytes(d)
    ELSE <<>>

\* A glyph: kind "simple", "compound" (contour count 0xFFFF) or "negative"
\* (contour count 0xFFFE); rle > 0 stores one flag byte with the repeat bit
\* and the repeat count rle.
Glyph(kind, pts, ends, ilen, rle) ==
    [kind |-> kind, pts |-> pts, ends |-> ends, ilen |-> ilen, rle |-> rle]

PadEven(bytes) == IF Len(bytes) % 2 = 1 THEN Append(bytes, 0) ELSE bytes

GlyphBytes(g) ==
    IF g.kind = "compound" THEN <<255, 255, 0, 0, 0, 0>>
    ELSE IF g.kind = "negative" THEN <<255, 254>> \o Zeros(8)
    ELSE PadEven(
           I16Bytes(Len(g.ends)) \o Zeros(8)
           \o U16SeqBytes(g.ends)
           \o U16Bytes(g.ilen) \o Zeros(g.ilen)
           \o (IF g.rle > 0 THEN <<PointFlag(g.pts[1]) + 8, g.rle>>
               ELSE [i \in 1..Len(g.pts) |-> PointFlag(g.pts[i])])
           \o Concat([i \in 1..Len(g.pts) |-> DeltaBytes(g.pts[i].dx, g.pts[i].xe)])
           \o Concat([i \in 1..Len(g.pts) |-> DeltaBytes(g.pts[i].dy, g.pts[i].ye)]))

\* Where each of the byte strings starts when they are laid out from `base`.
RECURSIVE Starts(_, _)
Starts(parts, base) ==
    IF parts = <<>> THEN <<>>
    ELSE <<base>> \o Starts(Tail(parts), base + Len(Head(parts)))

GlyfBytes(gs) == Concat([i \in 1..Len(gs) |-> GlyphBytes(gs[i])])

\* loca: one entry per glyph and the closing entry.
LocaBytes(gs, loc_format) ==
    LET parts == [i \in 1..Len(gs) |-> GlyphBytes(gs[i])]
        offs == Starts(parts, 0) \o <<Len(Concat(parts))>>
    IN  Concat([i \in 1..Len(offs) |->
                  IF loc_format = 0 THEN U16Bytes(offs[i] \div 2)
                  ELSE NatBytes32(offs[i])])

HeadBytes(loc_format) == Zeros(50) \o I16Bytes(loc_format) \o Zeros(2)
MaxpBytes(num_glyphs) == Zeros(4) \o U16Bytes(num_glyphs)

\* A format 4 segment; gids = <<>> stores a zero range offset.
Seg(start, end, delta, gids) ==
    [start |-> start, end |-> end, delta |-> delta, gids |-> gids]

Format4Bytes(segs) ==
    LET n == Len(segs)
        before(i) == SumSeq([j \in 1..(i - 1) |-> Len(segs[j].gids)])
    IN  U16Bytes(4) \o Zeros(4) \o U16Bytes(2 * n) \o Zeros(6)
        \o Concat([i \in 1..n |-> U16Bytes(segs[i].end)]) \o Zeros(2)
        \o Concat([i \in 1..n |-> U16Bytes(segs[i].start)])
        \o Concat([i \in 1..n |-> U16Bytes(segs[i].delta)])
        \o Concat([i \in 1..n |->
                     IF segs[i].gids = <<>> THEN U16Bytes(0)
                     ELSE U16Bytes(2 * (n - i + 1) + 2 * before(i))])
        \o Concat([i \in 1..n |-> U16SeqBytes(segs[i].gids)])

\* A format 12 group: three u32 as <<hi, lo>>.
Group(start, end, glyph) == [start |-> start, end |-> end, glyph |-> glyph]

Format12Bytes(groups) ==
    U16Bytes(12) \o Zeros(10) \o NatBytes32(Len(groups))
    \o Concat([i \in 1..Len(groups) |->
                 U32Bytes(groups[i].start) \o U32Bytes(groups[i].end)
                 \o U32Bytes(groups[i].glyph)])

\* A cmap subtable with its encoding record.
Subtable(platform_id, platform_specific_id, format, segs, groups) ==
    [platform_id |-> platform_id, platform_specific_id |-> platform_specific_id,
     format |-> format, segs |-> segs, groups |-> groups]

SubtableBytes(st) ==
    IF st.format = 4 THEN Format4Bytes(st.segs)
    ELSE IF st.format = 12 THEN Format12Bytes(st.groups)
    ELSE U16Bytes(st.format) \o Zeros(6)

CmapBytes(subtables) ==
    LET n == Len(subtables)
        bodies == [i \in 1..n |-> SubtableBytes(subtables[i])]
        offs == Starts(bodies, 4 + 8 * n)
    IN  Zeros(2) \o U16Bytes(n)
        \o Concat([i \in 1..n |->
                     U16Bytes(subtables[i].platform_id)
                     \o U16Bytes(subtables[i].platform_specific_id)
                     \o NatBytes32(offs[i])])
        \o Concat(bodies)

\* A font; `tables` are the tags its directory lists, `cut` the bytes cut off
\* its end.
Font(tables, loc_format, gs, subtables, window, overflow_checks, cut) ==
    [tables |-> tables, loc_format |-> loc_format, glyphs |-> gs,
     cmap |-> subtables, window |-> window, overflow_checks |-> overflow_checks,
     cut |-> cut]

TableBytes(f, tag) ==
    IF tag = TagHead THEN HeadBytes(f.loc_format)
    ELSE IF tag = TagMaxp THEN MaxpBytes(Len(f.glyphs))
    ELSE IF tag = TagLoca THEN LocaBytes(f.glyphs, f.loc_format)
    ELSE IF tag = TagGlyf THEN GlyfBytes(f.glyphs)
    ELSE CmapBytes(f.cmap)

FontBytes(f) ==
    LET n == Len(f.tables)
        bodies == [i \in 1..n |-> TableBytes(f, f.tables[i])]
        offs == Starts(bodies, 12 + 16 * n)
        whole == Zeros(4) \o U16Bytes(n) \o Zeros(6)
                 \o Concat([i \in 1..n |->
                              f.tables[i] \o Zeros(4) \o NatBytes32(offs[i])
                              \o NatBytes32(Len(bodies[i]))])
                 \o Concat(bodies)
    IN  SubSeq(whole, 1, Len(whole) - f.cut)

\* Where the tables of a font start, from the description alone.
TableStart(f, tag) ==
    LET n == Len(f.tables)
        bodies == [i \in 1..n |-> TableBytes(f, f.tables[i])]
        offs == Starts(bodies, 12 + 16 * n)
    IN  offs[CHOOSE i \in 1..n : f.tables[i] = tag]

(***************************************************************************)
(* The families of fonts the parser is run on.                             *)
(***************************************************************************)
AllTables == <<TagHead, TagMaxp, TagLoca, TagGlyf, TagCmap>>

PointPool ==
    {Pt(TRUE, 30, "short", 40, "short"), Pt(TRUE, -300, "word", 300, "word"),
     Pt(FALSE, 0, "same", -20, "short"), Pt(FALSE, -7, "short", 0, "same")}

EndsOf(n) == {<<n - 1>>} \cup (IF n >= 2 THEN {<<0, n - 1>>} ELSE {})

SimpleGlyphs ==
    UNION {{Glyph("simple", pts, ends, 0, 0) : ends \in EndsOf(Len(pts))}
           : pts \in SeqsUpTo(PointPool, MaxPoints) \ {<<>>}}

\* Glyphs whose flags are one repeated flag: the repeat count fits the points
\* (n - 1) or runs past them (5).
RunGlyphs ==
    UNION {{Glyph("simple", [i \in 1..n |-> pt], <<n - 1>>, ilen, rle)
            : rle \in {n - 1, 5} \ {0}, ilen \in {0, 3}, pt \in PointPool}
           : n \in 1..MaxPoints}

Triangle ==
    Glyph("simple",
          <<Pt(TRUE, 30, "short", 40, "short"), Pt(TRUE, -300, "word", 300, "word"),
            Pt(TRUE, 0, "same", -20, "short")>>,
          <<2>>, 0, 0)
CompoundGlyph == Glyph("compound", <<>>, <<>>, 0, 0)
NegativeGlyph == Glyph("negative", <<>>, <<>>, 0, 0)
EmptyGlyph == Glyph("simple", <<>>, <<>>, 0, 0)
SmallPool == {Triangle, CompoundGlyph, NegativeGlyph, EmptyGlyph}

SegPool ==
    {Seg(65, 67, 5, <<>>), Seg(65, 67, 65530, <<>>), Seg(66, 68, 3, <<0, 9, 65535>>),
     Seg(65535, 65535, 1, <<>>), Seg(80, 79, 0, <<>>)}

GroupPool ==
    {Group(<<1, 62976>>, <<1, 62978>>, <<0, 500>>), Group(<<0, 65>>, <<0, 65>>, <<0, 3>>),
     Group(<<0, 5>>, <<0, 4>>, <<0, 7>>), Group(<<0, 0>>, U32Max, <<0, 0>>)}

BasicCmap == <<Subtable(0, 3, 4, <<Seg(65, 67, 5, <<>>)>>, <<>>)>>
Windows == {<<0, 0>>, <<9, 4>>}

GlyphFonts ==
    {Font(AllTables, loc_format, <<g>>, BasicCmap, w, FALSE, 0)
     : g \in SimpleGlyphs \cup RunGlyphs, loc_format \in {0, 1}, w \in Windows}

MultiFonts ==
    {Font(AllTables, loc_format, gs, BasicCmap, <<0, 0>>, FALSE, 0)
     : gs \in SeqsUpTo(SmallPool, MaxGlyphs), loc_format \in {0, 1, -1}}

MissingFonts ==
    {Font(tables, 0, <<Triangle>>, BasicCmap, <<0, 0>>, FALSE, 0)
     : tables \in {<<TagHead, TagMaxp, TagGlyf, TagCmap>>,
                   <<TagHead, TagMaxp, TagLoca, TagCmap>>,
                   <<TagHead, TagLoca, TagGlyf, TagCmap>>,
                   <<TagMaxp, TagLoca, TagGlyf, TagCmap>>,
                   <<TagHead, TagMaxp, TagLoca, TagGlyf>>,
                   <<>>}}

CutFonts ==
    {Font(AllTables, loc_format, <<Triangle, Triangle>>, BasicCmap, <<0, 0>>, FALSE, cut)
     : loc_format \in {0, 1}, cut \in {2, 30, 50, 80, 100, 140, 200, 260}}

Cmap4Fonts ==
    {Font(AllTables, 0, <<Triangle>>, <<Subtable(0, 3, 4, segs, <<>>)>>, <<0, 0>>,
          FALSE, 0)
     : segs \in SeqsUpTo(SegPool, MaxSegs)}

Cmap12Fonts ==
    {Font(AllTables, 0, <<Triangle>>, <<Subtable(0, 4, 12, <<>>, groups)>>, <<0, 0>>,
          overflow_checks, 0)
     : groups \in SeqsUpTo(GroupPool, MaxGroups), overflow_checks \in BOOLEAN}

SelectFonts ==
    LET bmp == Subtable(0, 3, 4, <<Seg(65, 67, 5, <<>>)>>, <<>>)
        full == Subtable(0, 4, 12, <<>>, <<Group(<<0, 65>>, <<0, 65>>, <<0, 3>>)>>)
    IN  {Font(AllTables, 0, <<Triangle>>, subtables, <<0, 0>>, FALSE, 0)
         : subtables \in {<<bmp, full>>, <<full, bmp>>, <<>>,
                          <<Subtable(3, 1, 4, bmp.segs, <<>>)>>,
                          <<Subtable(0, 4, 6, <<>>, <<>>)>>,
                          <<bmp, Subtable(0, 3, 4, <<Seg(65, 67, 9, <<>>)>>, <<>>)>>}}

\* A font whose cmap maps every character of TEXT to one of its two glyphs.
TextFont ==
    Font(AllTables, 0,
         <<Triangle,
           Glyph("simple",
                 <<Pt(FALSE, 30, "short", 40, "short"), Pt(FALSE, 4, "short", 6, "short"),
                   Pt(TRUE, -300, "word", 300, "word")>>,
                 <<0, 2>>, 0, 0)>>,
         <<Subtable(0, 3, 4, <<Seg(33, 122, 65535, [j \in 1..90 |-> 1 + (j % 2)])>>, <<>>)>>,
         <<0, 0>>, FALSE, 0)

Fonts ==
    GlyphFonts \cup MultiFonts \cup MissingFonts \cup CutFonts \cup Cmap4Fonts
    \cup Cmap12Fonts \cup SelectFonts \cup {TextFont}

(***************************************************************************)
(* spawn: FontTableParser { reader, ..default() } and the four calls.      *)
(***************************************************************************)
NoResources ==
    /\ glyph_data = <<>>
    /\ glyph_unicodes = EmptyMap
    /\ char_index = 0
    /\ padding = <<0, 0>>
    /\ row_counter = 1
    /\ implied_contours = <<>>
    /\ drawn = <<>>

Init ==
    /\ input \in Fonts
    /\ buf = FontBytes(input)
    /\ pos = 0
    /\ window_size = input.window
    /\ font_table = EmptyMap
    /\ glyph_locations = <<>>
    /\ glyphs = <<>>
    /\ unicodes_to_index = EmptyMap
    /\ unicode_to_index_map = EmptyMap
    /\ cmap_state = NoCmapState
    /\ pc = "get_lookup_table"
    /\ outcome = [call |-> "new", end |-> "ok"]
    /\ NoResources

Ended(call, end) == [call |-> call, end |-> end]

GetLookupTable ==
    /\ pc = "get_lookup_table"
    /\ LET r == get_lookup_table(pos)
       IN  /\ font_table' = IF r.ok THEN r.table ELSE font_table
           /\ pos' = r.pos
           /\ pc' = IF r.ok THEN "get_glyph_location" ELSE "stopped"
           /\ outcome' = Ended("get_lookup_table", IF r.ok THEN "ok" ELSE "err")
    /\ UNCHANGED <<input, buf, window_size, glyph_locations, glyphs,
                   unicodes_to_index, unicode_to_index_map, cmap_state>>
    /\ UNCHANGED render_vars

GetGlyphLocation ==
    /\ pc = "get_glyph_location"
    /\ LET r == get_glyph_location(font_table, glyph_locations)
       IN  /\ glyph_locations' = r.locs
           /\ pos' = r.pos
           /\ pc' = IF r.end # "ok" THEN "stopped"
                    ELSE IF r.locs = <<>> THEN "map_glyph_to_unicode"
                    ELSE "get_glyphs"
           /\ outcome' = Ended("get_glyph_location", r.end)
    /\ UNCHANGED <<input, buf, window_size, font_table, glyphs, unicodes_to_index,
                   unicode_to_index_map, cmap_state>>
    /\ UNCHANGED render_vars

\* One iteration of the loop of get_glyphs: the glyph at index Len(glyphs).
GetGlyphs ==
    /\ pc = "get_glyphs"
    /\ LET r == DecodeGlyph(glyph_locations[Len(glyphs) + 1], glyphs, window_size)
           last == Len(glyphs) + 1 = Len(glyph_locations)
       IN  /\ glyphs' = IF r.push THEN Append(glyphs, r.glyph) ELSE glyphs
           /\ pos' = r.pos
           /\ pc' = IF r.end # "ok" THEN "stopped"
                    ELSE IF last THEN "map_glyph_to_unicode"
                    ELSE "get_glyphs"
           /\ outcome' = Ended("get_glyphs", r.end)
    /\ UNCHANGED <<input, buf, window_size, font_table, glyph_locations,
                   unicodes_to_index, unicode_to_index_map, cmap_state>>
    /\ UNCHANGED render_vars

\* map_glyph_to_unicode returns: the map is stored, and spawn inserts the
\* resources GlyphData and GlyphUnicode.
Spawned(map) ==
    /\ unicodes_to_index' = map
    /\ glyph_data' = glyphs
    /\ glyph_unicodes' = map
    /\ pc' = "render_text"
    /\ outcome' = Ended("map_glyph_to_unicode", "ok")

Failed(call, end) ==
    /\ pc' = "stopped"
    /\ outcome' = Ended(call, end)
    /\ UNCHANGED <<unicodes_to_index, glyph_data, glyph_unicodes>>

\* map_glyph_to_unicode up to its loops.
MapGlyphToUnicode ==
    /\ pc = "map_glyph_to_unicode"
    /\ LET r == CmapHeader(font_table)
       IN  /\ pos' = r.pos
           /\ cmap_state' = r.state
           /\ unicode_to_index_map' = EmptyMap
           /\ IF r.end # "ok" THEN Failed("map_glyph_to_unicode", r.end)
              ELSE IF r.state.n = 0 THEN Spawned(EmptyMap)
              ELSE /\ pc' = "cmap_loop"
                   /\ UNCHANGED <<outcome, unicodes_to_index, glyph_data,
                                  glyph_unicodes>>
    /\ UNCHANGED <<input, buf, window_size, font_table, glyph_locations, glyphs>>
    /\ UNCHANGED <<char_index, padding, row_counter, implied_contours, drawn>>

\* One group of the format 12 loop.
Format12Group ==
    /\ pc = "cmap_loop"
    /\ cmap_state.format = 12
    /\ LET r == CmapGroup(pos, unicode_to_index_map, input.overflow_checks)
           last == cmap_state.done + 1 = cmap_state.n
       IN  /\ pos' = r.pos
           /\ unicode_to_index_map' = r.map
           /\ cmap_state' = [cmap_state EXCEPT !.done = @ + 1]
           /\ IF r.end # "ok" THEN Failed("map_glyph_to_unicode", r.end)
              ELSE IF last THEN Spawned(r.map)
              ELSE UNCHANGED <<pc, outcome, unicodes_to_index, glyph_data,
                               glyph_unicodes>>
    /\ UNCHANGED <<input, buf, window_size, font_table, glyph_locations, glyphs>>
    /\ UNCHANGED <<char_index, padding, row_counter, implied_contours, drawn>>

\* One segment of the format 4 loop.
Format4Segment ==
    /\ pc = "cmap_loop"
    /\ cmap_state.format = 4
    /\ LET r == CmapSegment(cmap_state.done + 1, cmap_state, unicode_to_index_map)
           last == cmap_state.done + 1 = cmap_state.n
       IN  /\ unicode_to_index_map' = r.map
           /\ cmap_state' = [cmap_state EXCEPT !.done = @ + 1]
           /\ IF r.end # "ok" THEN Failed("map_glyph_to_unicode", r.end)
              ELSE IF last THEN Spawned(r.map)
              ELSE UNCHANGED <<pc, outcome, unicodes_to_index, glyph_data,
                               glyph_unicodes>>
    /\ UNCHANGED <<input, buf, pos, window_size, font_table, glyph_locations, glyphs>>
    /\ UNCHANGED <<char_index, padding, row_counter, implied_contours, drawn>>

(***************************************************************************)
(* render_text: one character of the text; after the last one the system   *)
(* has run, and the next frame runs it again from the start.               *)
(***************************************************************************)
RenderText ==
    /\ pc = "render_text"
    /\ LET r == RenderOne(TEXT[char_index + 1], padding)
           wrap == row_counter % 10 = 0
           last == char_index + 1 = Len(TEXT)
       IN  /\ implied_contours' = r.contours
           /\ drawn' = r.drawn
           /\ pc' = IF r.end = "ok" THEN "render_text" ELSE "stopped"
           /\ outcome' = Ended("render_text", r.end)
           /\ char_index' = IF r.end # "ok" THEN char_index
                            ELSE IF last THEN 0 ELSE char_index + 1
           /\ padding' = IF r.end # "ok" THEN padding
                         ELSE IF last THEN <<0, 0>>
                         ELSE IF wrap THEN <<0, padding[2] - 100>>
                         ELSE <<padding[1] + 100, padding[2]>>
           /\ row_counter' = IF r.end # "ok" THEN row_counter
                             ELSE IF last THEN 1 ELSE row_counter + 1
    /\ UNCHANGED <<input, glyph_data, glyph_unicodes>>
    /\ UNCHANGED parser_vars

Next ==
    \/ GetLookupTable
    \/ GetGlyphLocation
    \/ GetGlyphs
    \/ MapGlyphToUnicode
    \/ Format12Group
    \/ Format4Segment
    \/ RenderText

Spec == Init /\ [][Next]_vars

(***************************************************************************)
(* render_text as a system of its own: the resources GlyphData and         *)
(* GlyphUnicode are drawn from bounded sets.  Every character of TEXT is   *)
(* mapped to one of the glyphs.                                            *)
(***************************************************************************)
RenderPoints(n, on) ==
    [i \in 1..n |-> [x |-> 720 * i, y |-> 360 * i * i, on_curve |-> on[i]]]

RenderGlyphs ==
    UNION {{[coordinates |-> RenderPoints(n, on), contour_end_pts |-> ends]
            : on \in [1..n -> BOOLEAN],
              ends \in EndsOf(n) \cup {<<>>, <<n>>, <<1, 0>>, <<0, 0>>}}
           : n \in 1..MaxPoints}

RenderData ==
    {<<g>> : g \in RenderGlyphs}
    \cup {<<g, [coordinates |-> RenderPoints(2, <<TRUE, FALSE>>),
               contour_end_pts |-> <<1>>]>> : g \in RenderGlyphs}

InitRender ==
    /\ input = TextFont
    /\ buf = <<>>
    /\ pos = 0
    /\ window_size = <<0, 0>>
    /\ font_table = EmptyMap
    /\ glyph_locations = <<>>
    /\ glyphs = <<>>
    /\ unicodes_to_index = EmptyMap
    /\ unicode_to_index_map = EmptyMap
    /\ cmap_state = NoCmapState
    /\ pc = "render_text"
    /\ outcome = [call |-> "new", end |-> "ok"]
    /\ glyph_data \in RenderData
    /\ glyph_unicodes = [c \in {TEXT[i] : i \in 1..Len(TEXT)} |-> c % Len(glyph_data)]
    /\ char_index = 0
    /\ padding = <<0, 0>>
    /\ row_counter = 1
    /\ implied_contours = <<>>
    /\ drawn = <<>>

NextRender == RenderText

SpecRender == InitRender /\ [][NextRender]_vars

(***************************************************************************)
(* What the properties are stated with: the bytes of the file read         *)
(* directly, and the description the file was built from.                  *)
(***************************************************************************)
Last(s) == s[Len(s)]
RawU16(a) == buf[a + 1] * 256 + buf[a + 2]
RawU32(a) == RawU16(a) * 65536 + RawU16(a + 2)

RECURSIVE SumDx(_, _)
SumDx(pts, i) == IF i = 0 THEN 0 ELSE pts[i].dx + SumDx(pts, i - 1)
RECURSIVE SumDy(_, _)
SumDy(pts, i) == IF i = 0 THEN 0 ELSE pts[i].dy + SumDy(pts, i - 1)

\* get_glyph_location has just returned Ok (glyph_locations is not written
\* again afterwards).
GlyphLocationOk == outcome.call = "get_glyph_location" /\ outcome.end = "ok"

\* A simple glyph with points whose flags are stored one per point, or as one
\* flag whose repeat count is the number of the remaining points.
WellFormed(g) ==
    g.kind = "simple" /\ g.pts # <<>> /\ g.rle \in {0, Len(g.pts) - 1}

\* The glyph the last step of get_glyphs worked on (1-based), 0 if none.
GlyphWorkedOn ==
    IF outcome.call # "get_glyphs" \/ pc \notin {"get_glyphs", "map_glyph_to_unicode", "stopped"}
    THEN 0
    ELSE IF outcome.end = "ok" THEN Len(glyphs) ELSE Len(glyphs) + 1

(***************************************************************************)
(* C1.  The flag loop of get_glyphs produces exactly n_points = last       *)
(* contour end + 1 flags: a repeat count that runs past n_points is        *)
(* truncated, so a simple glyph never has more than n_points points.       *)
(***************************************************************************)
CexC1 ==
    \A k \in 1..Len(glyphs) :
        (input.glyphs[k].kind = "simple" /\ glyphs[k].contour_end_pts # <<>>)
        => Len(glyphs[k].coordinates) = Last(glyphs[k].contour_end_pts) + 1

(***************************************************************************)
(* C2.  A glyph whose contour count is 0xFFFF, the first one included, is  *)
(* recorded as a compound variant distinct from any simple glyph; nothing  *)
(* is read after the two bytes of the count, and the collection gets       *)
(* exactly one entry for that index.                                       *)
(***************************************************************************)
CexC2 ==
    LET k == GlyphWorkedOn
    IN  (k >= 1 /\ input.glyphs[k].kind = "compound")
        => /\ outcome.end = "ok"
           /\ Len(glyphs) = k
           /\ pos = glyph_locations[k] + 2
           /\ \A j \in 1..(k - 1) :
                 input.glyphs[j].kind = "simple" => glyphs[k] # glyphs[j]

RangeOffsetPos(i, n) == TableStart(input, TagCmap) + 12 + 16 + 6 * n + 2 * (i - 1)

\* The format 4 loop has just finished segment i without an error.
SegmentDone(i) ==
    /\ Len(input.cmap) = 1
    /\ cmap_state.format = 4
    /\ cmap_state.done = i
    /\ ~(outcome.call = "map_glyph_to_unicode" /\ outcome.end # "ok")

U32LessEq(a, b) == a[1] < b[1] \/ (a[1] = b[1] /\ a[2] <= b[2])

CexC6 ==
    (Len(input.cmap) = 1 /\ cmap_state.format = 12 /\ cmap_state.done >= 1)
    => LET g == input.cmap[1].groups[cmap_state.done]
       IN  /\ ~(outcome.call = "map_glyph_to_unicode" /\ outcome.end = "panic")
           /\ \A j \in 0..2 :
                 LET c == U32Add(g.start, <<0, j>>)
                 IN  (~c.overflow /\ U32LessEq(c.val, g.end))
                     => /\ ToNat(c.val) \in DOMAIN unicode_to_index_map
                        /\ unicode_to_index_map[ToNat(c.val)] = ToNat(g.glyph) + j

(***************************************************************************)
(* C7.  Without a loca entry in the table directory get_glyph_location     *)
(* returns an error value (it does not panic), and glyph_locations and     *)
(* glyphs stay empty.                                                      *)
(***************************************************************************)
CexC7 ==
    (outcome.call = "get_glyph_location" /\ TagLoca \notin DOMAIN font_table)
    => /\ outcome.end = "err"
       /\ glyph_locations = <<>>
       /\ glyphs = <<>>

(***************************************************************************)
(* C8.  After get_glyph_location succeeds, glyph_locations has num_glyphs  *)
(* entries (the 16-bit count at maxp + 4), every entry is at least the     *)
(* glyf base, and entry i is glyf base + 2 * (i-th 16-bit loca value) when *)
(* the flag at head + 50 is 0, glyf base + (i-th 32-bit loca value)        *)
(* otherwise.                                                              *)
(***************************************************************************)
TheoremC8 ==
    GlyphLocationOk
    => LET glyf == TableStart(input, TagGlyf)
           loca == TableStart(input, TagLoca)
           num_glyphs == RawU16(TableStart(input, TagMaxp) + 4)
           short == RawU16(TableStart(input, TagHead) + 50) = 0
       IN  /\ Len(glyph_locations) = num_glyphs
           /\ \A i \in 1..num_glyphs :
                 /\ glyph_locations[i] >= glyf
                 /\ glyph_locations[i] =
                       glyf + (IF short THEN 2 * RawU16(loca + 2 * (i - 1))
                               ELSE RawU32(loca + 4 * (i - 1)))

\* Two glyphs have been located through a short loca table, the second one
\* behind the first.
WitnessC8 ==
    /\ GlyphLocationOk
    /\ input.loc_format = 0
    /\ Len(glyph_locations) = 2
    /\ glyph_locations[2] > glyph_locations[1]
    /\ glyph_locations[1] = TableStart(input, TagGlyf)

(***************************************************************************)
(* C9.  A simple glyph with contour count 0 has n_points = 0: nothing is   *)
(* read after the instruction bytes, and the glyph has an empty point list *)
(* and an empty contour-end list.                                          *)
(***************************************************************************)
CexC9 ==
    /\ \A k \in 1..Len(glyphs) :
          input.glyphs[k] = EmptyGlyph
          => glyphs[k].coordinates = <<>> /\ glyphs[k].contour_end_pts = <<>>
    /\ LET k == GlyphWorkedOn
       IN  (k >= 1 /\ input.glyphs[k] = EmptyGlyph /\ outcome.end = "ok")
           => pos = glyph_locations[k] + 12

(***************************************************************************)
(* C10.  In the outline reconstruction every contour gets as many          *)
(* midpoints as it has cyclically adjacent pairs of points of the same     *)
(* on-curve classification (none when the points alternate), and the       *)
(* reconstructed sequence has no two cyclically consecutive points of the  *)
(* same kind.                                                              *)
(***************************************************************************)
\* The glyph whose contours implied_contours holds.
GlyphRendered ==
    LET at == IF outcome.end # "ok" THEN char_index + 1
              ELSE IF char_index = 0 THEN Len(TEXT) ELSE char_index
    IN  glyph_data[glyph_unicodes[TEXT[at]] + 1]

SamePairs(old_contour) ==
    Cardinality({i \in 1..Len(old_contour) :
                   old_contour[i].on_curve
                   = old_contour[(i % Len(old_contour)) + 1].on_curve})

TheoremC10 ==
    (outcome.call = "render_text" /\ implied_contours # <<>>)
    => \A k \in 1..Len(implied_contours) :
          LET g == GlyphRendered
              from == IF k = 1 THEN 0 ELSE g.contour_end_pts[k - 1] + 1
              old_contour == SubSeq(g.coordinates, from + 1, g.contour_end_pts[k] + 1)
              new == implied_contours[k]
          IN  /\ Cardinality({j \in 1..Len(new) : new[j].implied}) = SamePairs(old_contour)
              /\ Len(new) = Len(old_contour) + SamePairs(old_contour)
              /\ \A j \in 1..Len(new) :
                    new[j].on_curve # new[(j % Len(new)) + 1].on_curve

\* A contour whose two points alternate got no midpoint, and a contour of the
\* same glyph with one point got one.
WitnessC10 ==
    /\ outcome = Ended("render_text", "ok")
    /\ Len(implied_contours) = 2
    /\ Len(implied_contours[1]) = 2
    /\ implied_contours[1][2].implied
    /\ Len(implied_contours[2]) = 2
    /\ \A j \in 1..2 : ~implied_contours[2][j].implied
====
